---- MODULE Spec2Model ----
\* Content Builder Agent, Streamlit front end (src/streamlit_app.py).
\*
\* The script is run top to bottom once per widget event.  The session state
\* (thread_id, history, current_prompt) survives between runs.  Python dicts
\* are functions whose DOMAIN is the set of keys present; an optional value
\* (None or a value) is a sequence of length 0 or 1.
EXTENDS Naturals, Sequences, FiniteSets, TLC

VARIABLES
    thread_id,       \* st.session_state.thread_id
    history,         \* st.session_state.history
    current_prompt,  \* st.session_state.current_prompt
    user_task,       \* value of the text area
    pc,              \* position of the script: "idle", "awaiting", "recorded"
    pending,         \* widget event raised while the script is blocked in call_agent
    uuids,           \* number of uuid4() values drawn so far
    used_ids,        \* every thread_id the session has had before the current one
    requests,        \* payloads POSTed to /run_agent, in order
    submits,         \* number of runs of the script with run = True
    last,            \* what the last step did
    before,          \* thread_id and history at the start of the last handler
    latest_meta,     \* result of the newest-to-oldest scan of the last render
    rel,             \* md_rel, hero_rel, social_rel of the last render, if resolved
    rpc,             \* position inside the preview section of one render
    fetched,         \* artifact kinds requested from /files in this render
    outcome,         \* how each request to /files ended
    slots            \* what each preview slot shows

session == <<thread_id, history, current_prompt, user_task, pc, pending,
             uuids, used_ids, requests, submits, last, before>>
preview == <<rpc, fetched, outcome, slots>>
vars == <<session, latest_meta, rel, preview>>

-----------------------------------------------------------------------------
\* Bounds of the model.

MaxSubmits == 2
MaxResets == 2
\* Number of starter prompts, from the first, the user presses.
StartersUsed == 1

-----------------------------------------------------------------------------
\* Python values.

EmptyDict == [k \in {} |-> ""]

\* d.get(k) is truthy: the key is present and its value is not the empty string.
Truthy(d, k) == k \in DOMAIN d /\ d[k] # ""

\* d.get(k) or default, for string values.
GetOr(d, k, default) == IF Truthy(d, k) THEN d[k] ELSE default

Kinds == <<"markdown", "hero_image", "social_image">>
KindSet == {Kinds[i] : i \in 1..Len(Kinds)}

-----------------------------------------------------------------------------
\* Artifact locator.

\* files = latest_meta.get("files") or {}
FilesOf(meta) == IF "files" \in DOMAIN meta THEN meta["files"] ELSE EmptyDict

\* The f-strings of the fallback convention.
Convention(kind, platform, slug) ==
    CASE kind = "markdown"     -> platform \o "/" \o slug \o "/post.md"
      [] kind = "hero_image"   -> "blogs/" \o slug \o "/hero.png"
      [] kind = "social_image" -> platform \o "/" \o slug \o "/image.png"

PathOfConventionOnly(meta, kind) ==
    Convention(kind, meta["platform"], meta["slug"])

\* files.get(kind) or f"..."
PathOf(meta, kind) ==
    GetOr(FilesOf(meta), kind, Convention(kind, meta["platform"], meta["slug"]))

\* not latest_meta: None or an empty dict.
NoLatestMeta(lm) == lm = <<>> \/ DOMAIN lm[1] = {}

\* not platform or not slug
NoRouting(meta) == ~Truthy(meta, "platform") \/ ~Truthy(meta, "slug")

ResolveExplicitWithoutRouting(lm) ==
    IF NoLatestMeta(lm) THEN <<>>
    ELSE IF NoRouting(lm[1])
         THEN IF \E k \in KindSet : Truthy(FilesOf(lm[1]), k)
              THEN << [k \in KindSet |-> GetOr(FilesOf(lm[1]), k, "")] >>
              ELSE <<>>
         ELSE << [k \in KindSet |-> PathOf(lm[1], k)] >>

\* The three relative paths of a render, or none when the script stops before
\* computing them.
Resolve(lm) ==
    IF NoLatestMeta(lm) \/ NoRouting(lm[1])
    THEN <<>>
    ELSE << [k \in KindSet |-> PathOf(lm[1], k)] >>

-----------------------------------------------------------------------------
\* Session state and the conversation.

STARTER_PROMPTS ==
    << "Create a LinkedIn post about AI agents",
       "Write a blog post about AI agents",
       "Create a LinkedIn post about prompt engineering",
       "Write a Twitter thread about the future of coding" >>

\* Texts the user types into the text area.
TypedTexts == {"", "Write a haiku"}

\* Bodies /run_agent answers with (JSON objects).
Responses ==
    { [final_text |-> "Done", platform |-> "linkedin", slug |-> "ai-agents",
       files |-> EmptyDict],
      [final_text |-> "", response |-> "Draft ready", platform |-> "blogs",
       slug |-> "s", files |-> [markdown |-> "x/y.md"]],
      EmptyDict }

\* str(e) of what requests.post, raise_for_status or resp.json() raise.
Failures == {"Read timed out.", "500 Server Error"}

uuid4Fixed(n) == "uuid-1"

\* str(uuid.uuid4()): the n-th value drawn; uuid4 values do not repeat.
uuid4(n) == "uuid-" \o ToString(n)

NoEvent == [w |-> "none", i |-> 0]
ButtonEvents ==
    {[w |-> "reset", i |-> 0], [w |-> "run", i |-> 0]}
        \cup {[w |-> "starter", i |-> j] : j \in 1..StartersUsed}

UserTurn(task) == [role |-> "user", content |-> task]

\* data.get("final_text") or data.get("response") or ""
AssistantText(data) ==
    IF Truthy(data, "final_text") THEN data["final_text"]
    ELSE GetOr(data, "response", "")

AssistantTurnNoMeta(data) ==
    [role |-> "assistant", content |-> AssistantText(data)]

AssistantTurn(data) ==
    [role |-> "assistant", content |-> AssistantText(data), meta |-> data]

ErrorTurnWithMeta(e) ==
    [role |-> "assistant", content |-> "Error calling backend: " \o e,
     meta |-> EmptyDict]

ErrorTurn(e) ==
    [role |-> "assistant", content |-> "Error calling backend: " \o e]

\* The payload call_agent posts.
Payload(tid, task) == [thread_id |-> tid, user_input |-> task]

\* for msg in reversed(history): the meta of the newest assistant message
\* that has one, else None.
RECURSIVE ScanFrom(_, _)
ScanFrom(h, n) ==
    IF n = 0 THEN <<>>
    ELSE IF h[n]["role"] = "assistant" /\ "meta" \in DOMAIN h[n]
         THEN <<h[n]["meta"]>>
         ELSE ScanFrom(h, n - 1)

LatestMetaLastTurnOnly(h) ==
    IF h # <<>> /\ h[Len(h)]["role"] = "assistant" /\ "meta" \in DOMAIN h[Len(h)]
    THEN <<h[Len(h)]["meta"]>>
    ELSE <<>>

LatestMeta(h) == ScanFrom(h, Len(h))

Snapshot == [thread_id |-> thread_id, history |-> history, pending |-> pending]

\* The rest of a script run in which no button is pressed: the conversation
\* is drawn and the preview paths are derived from the history h.
Render(h) ==
    /\ latest_meta' = LatestMeta(h)
    /\ rel' = Resolve(LatestMeta(h))

-----------------------------------------------------------------------------
\* The script, one run per widget event.  A run is atomic except where it
\* blocks in call_agent: Streamlit hands a widget event to the script only
\* at the start of a run, so a button pressed while requests.post blocks is
\* held in `pending` and is the event of the run that follows.

Init ==
    /\ thread_id = uuid4(1)
    /\ uuids = 1
    /\ used_ids = {}
    /\ history = <<>>
    /\ current_prompt = ""
    /\ user_task = ""
    /\ pc = "idle"
    /\ pending = NoEvent
    /\ requests = <<>>
    /\ submits = 0
    /\ last = "init"
    /\ before = [thread_id |-> uuid4(1), history |-> <<>>, pending |-> NoEvent]
    /\ latest_meta = <<>>
    /\ rel = <<>>
    /\ rpc = "stopped"
    /\ fetched = <<>>
    /\ outcome = [k \in KindSet |-> "none"]
    /\ slots = [k \in KindSet |-> "empty"]

\* if st.button("New conversation"): ...; st.rerun()
ResetHandler ==
    /\ uuids <= MaxResets
    /\ thread_id' = uuid4(uuids + 1)
    /\ uuids' = uuids + 1
    /\ used_ids' = used_ids \cup {thread_id}
    /\ history' = <<>>
    /\ Render(<<>>)
    /\ pc' = "idle"
    /\ last' = "reset"
    /\ UNCHANGED <<current_prompt, user_task, requests, submits>>

\* if st.button(prompt): current_prompt = prompt; st.rerun().  The text area
\* has no key: it takes the new default when the default changes, and keeps
\* what it holds when the default is the one it already had.
StarterHandler(i) ==
    /\ current_prompt' = STARTER_PROMPTS[i]
    /\ user_task' = IF STARTER_PROMPTS[i] # current_prompt
                    THEN STARTER_PROMPTS[i] ELSE user_task
    /\ Render(history)
    /\ pc' = "idle"
    /\ last' = "starter"
    /\ UNCHANGED <<thread_id, uuids, used_ids, history, requests, submits>>

\* if run: the user turn is saved and call_agent posts the payload.
RunHandler ==
    /\ submits < MaxSubmits
    /\ history' = Append(history, UserTurn(user_task))
    /\ requests' = Append(requests, Payload(thread_id, user_task))
    /\ submits' = submits + 1
    /\ pc' = "awaiting"
    /\ last' = "run"
    /\ UNCHANGED <<thread_id, uuids, used_ids, current_prompt, user_task,
                   latest_meta, rel>>

\* A run in which no button is pressed.
DisplayHandler ==
    /\ Render(history)
    /\ pc' = "idle"
    /\ last' = "display"
    /\ UNCHANGED <<thread_id, uuids, used_ids, history, current_prompt,
                   user_task, requests, submits>>

\* One run of the script with the widget event ev.
Script(ev) ==
    CASE ev.w = "reset"   -> ResetHandler
      [] ev.w = "starter" -> StarterHandler(ev.i)
      [] ev.w = "run"     -> RunHandler
      [] ev.w = "none"    -> DisplayHandler

NewConversation ==
    /\ pc = "idle"
    /\ ResetHandler
    /\ before' = Snapshot
    /\ UNCHANGED <<pending, preview>>

ClickStarter ==
    \E i \in 1..StartersUsed :
        /\ pc = "idle"
        /\ StarterHandler(i)
        /\ before' = Snapshot
        /\ UNCHANGED <<pending, preview>>

\* The user changes the text of the text area; the script reruns.
EditTask ==
    \E t \in TypedTexts :
        /\ pc = "idle"
        /\ t # user_task
        /\ user_task' = t
        /\ Render(history)
        /\ pc' = "idle"
        /\ last' = "edit"
        /\ before' = Snapshot
        /\ UNCHANGED <<thread_id, uuids, used_ids, history, current_prompt,
                       requests, submits, pending, preview>>

RunAgent ==
    /\ pc = "idle"
    /\ RunHandler
    /\ before' = Snapshot
    /\ UNCHANGED <<pending, preview>>

ClickWhileRunningResetsNow ==
    \E ev \in ButtonEvents :
        /\ pc = "awaiting"
        /\ pending = NoEvent
        /\ ev.w = "run" => submits < MaxSubmits
        /\ ev.w = "reset" => uuids <= MaxResets
        /\ IF ev.w = "reset"
           THEN /\ thread_id' = uuid4(uuids + 1)
                /\ uuids' = uuids + 1
                /\ used_ids' = used_ids \cup {thread_id}
                /\ history' = <<>>
                /\ pending' = NoEvent
           ELSE /\ pending' = ev
                /\ UNCHANGED <<thread_id, uuids, used_ids, history>>
        /\ last' = "click"
        /\ before' = Snapshot
        /\ UNCHANGED <<current_prompt, user_task, pc, requests, submits,
                       latest_meta, rel, preview>>

\* A button is pressed while the script is blocked in requests.post.
ClickWhileRunning ==
    \E ev \in ButtonEvents :
        /\ pc = "awaiting"
        /\ pending = NoEvent
        /\ ev.w = "run" => submits < MaxSubmits
        /\ ev.w = "reset" => uuids <= MaxResets
        /\ pending' = ev
        /\ last' = "click"
        /\ before' = Snapshot
        /\ UNCHANGED <<thread_id, uuids, used_ids, history, current_prompt,
                       user_task, pc, requests, submits, latest_meta, rel,
                       preview>>

\* call_agent returns data; the assistant turn is saved with it as meta.
AgentReplies ==
    \E data \in Responses :
        /\ pc = "awaiting"
        /\ history' = Append(history, AssistantTurn(data))
        /\ pc' = "recorded"
        /\ last' = "reply"
        /\ before' = Snapshot
        /\ UNCHANGED <<thread_id, uuids, used_ids, current_prompt, user_task,
                       pending, requests, submits, latest_meta, rel, preview>>

AgentFailsRetries ==
    \E e \in Failures :
        /\ pc = "awaiting"
        /\ history' = Append(history, ErrorTurn(e))
        /\ requests' = Append(requests, requests[Len(requests)])
        /\ pc' = "recorded"
        /\ last' = "fail"
        /\ before' = Snapshot
        /\ UNCHANGED <<thread_id, uuids, used_ids, current_prompt, user_task,
                       pending, submits, latest_meta, rel, preview>>

\* call_agent raises; the except branch saves the error turn.
AgentFails ==
    \E e \in Failures :
        /\ pc = "awaiting"
        /\ history' = Append(history, ErrorTurn(e))
        /\ pc' = "recorded"
        /\ last' = "fail"
        /\ before' = Snapshot
        /\ UNCHANGED <<thread_id, uuids, used_ids, current_prompt, user_task,
                       pending, requests, submits, latest_meta, rel, preview>>

\* The run that follows a recorded turn: st.rerun(), with the held event.
Rerun ==
    /\ pc = "recorded"
    /\ Script(pending)
    /\ pending' = NoEvent
    /\ before' = Snapshot
    /\ UNCHANGED preview

Next ==
    \/ NewConversation
    \/ ClickStarter
    \/ EditTask
    \/ RunAgent
    \/ ClickWhileRunning
    \/ AgentReplies
    \/ AgentFails
    \/ Rerun

Spec == Init /\ [][Next]_vars

-----------------------------------------------------------------------------
\* The preview section of one render, statement by statement, for any
\* latest_meta the scan can yield.

Opt(k, vals) == {EmptyDict} \cup {k :> v : v \in vals}

FilesDomain ==
    { a @@ b @@ c : a \in Opt("markdown", {"", "x/y.md"}),
                    b \in Opt("hero_image", {"", "img/h.png"}),
                    c \in Opt("social_image", {"", "img/s.png"}) }

MetaDomain ==
    { p @@ s @@ f : p \in Opt("platform", {"", "blogs", "linkedin"}),
                    s \in Opt("slug", {"", "s"}),
                    f \in Opt("files", FilesDomain) }

\* How a GET of /files/<path> ends: status 200 (for the markdown, with or
\* without text), another status, or an exception of requests.
MarkdownOutcomes == {"200 text", "200 blank", "404", "error"}
ImageOutcomes == {"200", "404", "error"}

\* try: r = requests.get(md_link) ... except: st.info(...)
MarkdownSlot(o) ==
    CASE o = "200 text" -> "content"
      [] o = "error"    -> "could not fetch"
      [] OTHER          -> "not found"

\* try: r = requests.get(link) ... st.image / st.caption ... except: st.caption
ImageSlot(o) ==
    CASE o = "200"   -> "image"
      [] o = "error" -> "could not fetch"
      [] OTHER       -> "not found"

AfterFetchFailFast(kind, o) ==
    IF o = "error" THEN "stopped"
    ELSE CASE kind = "markdown"     -> "hero_image"
           [] kind = "hero_image"   -> "social_image"
           [] kind = "social_image" -> "done"

\* Where the script goes after the try block of one artifact: every outcome,
\* an exception included, falls through to the next block.
AfterFetch(kind, o) ==
    CASE kind = "markdown"     -> "hero_image"
      [] kind = "hero_image"   -> "social_image"
      [] kind = "social_image" -> "done"

PInit ==
    /\ thread_id = uuid4(1)
    /\ uuids = 1
    /\ used_ids = {}
    /\ history = <<>>
    /\ current_prompt = ""
    /\ user_task = ""
    /\ pc = "idle"
    /\ pending = NoEvent
    /\ requests = <<>>
    /\ submits = 0
    /\ last = "init"
    /\ before = [thread_id |-> uuid4(1), history |-> <<>>, pending |-> NoEvent]
    /\ latest_meta \in {<<>>} \cup {<<m>> : m \in MetaDomain}
    /\ rel = <<>>
    /\ rpc = "resolve"
    /\ fetched = <<>>
    /\ outcome = [k \in KindSet |-> "none"]
    /\ slots = [k \in KindSet |-> "empty"]

\* if not latest_meta: st.stop() ... if not platform or not slug: st.stop()
\* ... md_rel, hero_rel, social_rel
ResolvePaths ==
    /\ rpc = "resolve"
    /\ rel' = Resolve(latest_meta)
    /\ rpc' = IF Resolve(latest_meta) = <<>> THEN "stopped" ELSE "markdown"
    /\ UNCHANGED <<session, latest_meta, fetched, outcome, slots>>

Fetch(kind, o, slot) ==
    /\ fetched' = Append(fetched, kind)
    /\ outcome' = [outcome EXCEPT ![kind] = o]
    /\ slots' = [slots EXCEPT ![kind] = slot]
    /\ rpc' = AfterFetch(kind, o)
    /\ UNCHANGED <<session, latest_meta, rel>>

FetchMarkdown ==
    \E o \in MarkdownOutcomes :
        /\ rpc = "markdown"
        /\ Fetch("markdown", o, MarkdownSlot(o))

FetchHero ==
    \E o \in ImageOutcomes :
        /\ rpc = "hero_image"
        /\ Fetch("hero_image", o, ImageSlot(o))

FetchSocial ==
    \E o \in ImageOutcomes :
        /\ rpc = "social_image"
        /\ Fetch("social_image", o, ImageSlot(o))

PNext ==
    \/ ResolvePaths
    \/ FetchMarkdown
    \/ FetchHero
    \/ FetchSocial

SpecPreview == PInit /\ [][PNext]_vars

-----------------------------------------------------------------------------
\* Properties of the preview section (checked under SpecPreview).

Present(d, k) == k \in DOMAIN d
NonEmpty(d, k) == k \in DOMAIN d /\ d[k] # ""
FilesGiven(m) == IF Present(m, "files") THEN m["files"] ELSE EmptyDict

ConventionalPath(k, m) ==
    CASE k = "markdown"     -> m["platform"] \o "/" \o m["slug"] \o "/post.md"
      [] k = "hero_image"   -> "blogs/" \o m["slug"] \o "/hero.png"
      [] k = "social_image" -> m["platform"] \o "/" \o m["slug"] \o "/image.png"

P4Meta == [files |-> [markdown |-> "x/y.md"], platform |-> "blogs", slug |-> "s"]
P4Paths == [markdown |-> "x/y.md", hero_image |-> "blogs/s/hero.png",
            social_image |-> "blogs/s/image.png"]

\* C4 as stated: whenever platform and slug are present in the metadata, the
\* three paths are resolved and each is the entry of files for its kind when
\* there is one, verbatim, and the conventional path otherwise.
C4_PresentEntryAlwaysWins ==
    (rpc # "resolve" /\ latest_meta # <<>>) =>
        LET m == latest_meta[1] IN
        (Present(m, "platform") /\ Present(m, "slug")) =>
            /\ rel # <<>>
            /\ \A k \in KindSet :
                 rel[1][k] = IF Present(FilesGiven(m), k)
                             THEN FilesGiven(m)[k]
                             ELSE ConventionalPath(k, m)

\* C4 amended: whenever platform and slug are present and not empty, the
\* three paths are resolved, each on its own: a non-empty entry of files for
\* the kind is used verbatim, and a kind whose entry is absent or empty gets
\* the conventional path; the metadata of P4 resolves to the paths of P4.
C4_NonEmptyEntryWins ==
    (rpc # "resolve" /\ latest_meta # <<>>) =>
        LET m == latest_meta[1] IN
        /\ (NonEmpty(m, "platform") /\ NonEmpty(m, "slug")) =>
              /\ rel # <<>>
              /\ \A k \in KindSet :
                   rel[1][k] = IF NonEmpty(FilesGiven(m), k)
                               THEN FilesGiven(m)[k]
                               ELSE ConventionalPath(k, m)
        /\ m = P4Meta => rel = <<P4Paths>>

C4_Witness ==
    /\ rpc = "markdown"
    /\ latest_meta = <<P4Meta>>
    /\ rel = <<P4Paths>>

\* C5: when platform or slug is missing from the latest metadata (or there is
\* no metadata), no path is resolved, whatever files carries, the render
\* stops there and no artifact is requested.
C5_MissingRoutingSuppresses ==
    (rpc # "resolve" /\
        (latest_meta = <<>> \/ ~NonEmpty(latest_meta[1], "platform")
                            \/ ~NonEmpty(latest_meta[1], "slug"))) =>
        /\ rel = <<>>
        /\ rpc = "stopped"
        /\ fetched = <<>>
        /\ \A k \in KindSet : outcome[k] = "none" /\ slots[k] = "empty"

C5_Witness ==
    /\ rpc = "stopped"
    /\ latest_meta # <<>>
    /\ Present(latest_meta[1], "platform")
    /\ ~Present(latest_meta[1], "slug")
    /\ NonEmpty(FilesGiven(latest_meta[1]), "markdown")
    /\ fetched = <<>>

FetchFailed(k) ==
    IF k = "markdown" THEN outcome[k] \in {"200 blank", "404", "error"}
    ELSE outcome[k] \in {"404", "error"}

FetchSucceeded(k) ==
    IF k = "markdown" THEN outcome[k] = "200 text" ELSE outcome[k] = "200"

\* C6: once the paths are resolved the render requests the three artifacts
\* one after the other whatever the earlier requests gave and never stops
\* early; a slot shows its artifact exactly when its own request succeeded
\* and a not-found indication exactly when its own request failed.
C6_IndependentDegradation ==
    /\ rpc \in {"resolve", "stopped", "markdown", "hero_image",
                 "social_image", "done"}
    /\ rpc = "stopped" => (rel = <<>> /\ fetched = <<>>)
    /\ rpc = "markdown" => fetched = <<>>
    /\ rpc = "hero_image" => fetched = <<"markdown">>
    /\ rpc = "social_image" => fetched = <<"markdown", "hero_image">>
    /\ rpc = "done" => fetched = Kinds
    /\ \A i \in 1..Len(fetched) :
          LET k == fetched[i] IN
          /\ FetchSucceeded(k) \/ FetchFailed(k)
          /\ FetchSucceeded(k) => slots[k] \in {"content", "image"}
          /\ FetchFailed(k) => slots[k] \in {"not found", "could not fetch"}

C6_Witness ==
    /\ rpc = "done"
    /\ outcome["markdown"] = "200 text"
    /\ outcome["hero_image"] = "error"
    /\ outcome["social_image"] = "200"
    /\ slots["markdown"] = "content"
    /\ slots["hero_image"] = "could not fetch"
    /\ slots["social_image"] = "image"

-----------------------------------------------------------------------------
\* Properties of the session (checked under Spec).

Last(h) == h[Len(h)]

ReplyText(m) ==
    IF NonEmpty(m, "final_text") THEN m["final_text"]
    ELSE IF NonEmpty(m, "response") THEN m["response"]
    ELSE ""

\* C1: a submit appends one user turn holding the submitted text; nothing is
\* appended while the request is in flight; a successful return appends, right
\* after that user turn, one assistant turn whose meta is the returned object
\* and whose content is its final_text if non-empty, else its response if
\* non-empty, else the empty string.
C1_TurnPairing ==
    [][ /\ last' = "run" =>
            history' = Append(history, [role |-> "user", content |-> user_task])
        /\ (pc = "awaiting" /\ last' \notin {"reply", "fail"}) =>
            history' = history
        /\ last' = "reply" =>
            /\ pc = "awaiting"
            /\ Last(history)["role"] = "user"
            /\ Last(history)["content"] = Last(requests)["user_input"]
            /\ Len(history') = Len(history) + 1
            /\ SubSeq(history', 1, Len(history)) = history
            /\ DOMAIN Last(history') = {"role", "content", "meta"}
            /\ Last(history')["role"] = "assistant"
            /\ Last(history')["meta"] \in Responses
            /\ Last(history')["content"] = ReplyText(Last(history')["meta"])
      ]_vars

C1_Witness ==
    /\ last = "reply"
    /\ Len(history) = 4
    /\ history[3] = [role |-> "user", content |-> "Write a haiku"]
    /\ history[4]["content"] = "Draft ready"
    /\ history[4]["meta"]["final_text"] = ""

\* C2: a failed gateway call appends exactly one assistant turn, with no
\* meta and with the error description as content, after the user turn of
\* that submit, which stays; the session is left as it was and the script
\* goes on to its next run.
C2_FailureTurn ==
    /\ [](last = "fail" => (pc = "recorded" /\ ENABLED Rerun))
    /\ [][ last' = "fail" =>
            /\ pc = "awaiting"
            /\ Last(history)["role"] = "user"
            /\ \E e \in Failures :
                 history' = Append(history,
                     [role |-> "assistant",
                      content |-> "Error calling backend: " \o e])
            /\ thread_id' = thread_id
            /\ requests' = requests
          ]_vars

\* A submit made after a failed one.
C2_Witness ==
    /\ last = "run"
    /\ Len(history) = 3
    /\ history[2] = [role |-> "assistant",
                     content |-> "Error calling backend: Read timed out."]
    /\ history[3]["role"] = "user"

\* C3: thread_id is never empty and is none of the ids the session had
\* before; a step changes thread_id exactly when it is a reset, and that
\* same step leaves the transcript empty.
C3_SessionReset ==
    /\ [](thread_id # "" /\ thread_id \notin used_ids)
    /\ [](last = "reset" =>
            (history = <<>> /\ thread_id # before.thread_id
                            /\ before.thread_id \in used_ids))
    /\ [][ /\ last' = "reset" =>
                (history' = <<>> /\ thread_id' \notin used_ids \cup {thread_id})
           /\ thread_id' # thread_id => (last' = "reset" /\ history' = <<>>)
           /\ Len(history') < Len(history) => thread_id' # thread_id
          ]_vars

\* A second reset, made on a transcript that holds turns.
C3_Witness ==
    /\ last = "reset"
    /\ Cardinality(used_ids) = 2
    /\ Len(before.history) = 2
    /\ history = <<>>

\* C7 as stated: a submit leaves Idle for Awaiting Response; while awaiting,
\* nothing is submitted and the only way out is the recording of a turn; a
\* recorded turn is followed by the redisplay and Idle.
C7_Cycle ==
    [][ /\ (pc = "idle" /\ pc' # "idle") => (pc' = "awaiting" /\ last' = "run")
        /\ pc = "awaiting" =>
             \/ pc' = "awaiting" /\ requests' = requests /\ history' = history
             \/ pc' = "recorded" /\ last' \in {"reply", "fail"}
                                 /\ requests' = requests
        /\ pc = "recorded" => (pc' = "idle" /\ requests' = requests)
      ]_vars

C9_OneRequestPerSubmit ==
    /\ [](Len(requests) = submits)
    /\ [][ /\ last' = "run" =>
                /\ submits' = submits + 1
                /\ requests' = Append(requests,
                       [thread_id |-> thread_id, user_input |-> user_task])
           /\ requests' # requests => last' = "run"
          ]_vars

\* A failed submit, redisplayed, then a reset and a starter prompt: one request.
C9_Witness ==
    /\ last = "starter"
    /\ submits = 1
    /\ Len(requests) = 1
    /\ used_ids # {}
    /\ requests[1]["thread_id"] \in used_ids

WithMeta(h) ==
    {i \in 1..Len(h) : h[i]["role"] = "assistant" /\ Present(h[i], "meta")}

Newest(S) == CHOOSE i \in S : \A j \in S : j <= i

\* C10: after every render the metadata in use is that of the newest turn of
\* the transcript that has one, turns without metadata being skipped, and the
\* paths are the ones resolved from it; with no such turn, and after a reset,
\* there is no metadata and no path.
C10_LatestMetadata ==
    /\ pc = "idle" =>
          IF WithMeta(history) = {}
          THEN latest_meta = <<>> /\ rel = <<>>
          ELSE /\ latest_meta = <<history[Newest(WithMeta(history))]["meta"]>>
               /\ rel = Resolve(latest_meta)
    /\ last = "reset" => (latest_meta = <<>> /\ rel = <<>>)

\* A successful submit followed by a failed one.
C10_Witness ==
    /\ pc = "idle"
    /\ Len(history) = 4
    /\ Present(history[2], "meta")
    /\ ~Present(history[4], "meta")
    /\ latest_meta = <<history[2]["meta"]>>
    /\ rel = <<[markdown |-> "linkedin/ai-agents/post.md",
                hero_image |-> "blogs/ai-agents/hero.png",
                social_image |-> "linkedin/ai-agents/image.png"]>>

====
